---------------------------- MODULE Spec2Model ----------------------------
(***************************************************************************)
(* A model of the Dosbox automation component (src/unnamed/part_000):      *)
(* the stroke translator toKeyCodes, the timed key dispatch of             *)
(* sendStrokes, the set-up of the emulator, the image polling loop of      *)
(* watchForImage and the file bridge writeFile / getFile.                  *)
(*                                                                         *)
(* Strings are sequences of Unicode code points (the way the destructuring *)
(* `[first, ...rest] = command` walks them); a key code is a JavaScript    *)
(* value: a number stands for itself, the few non-numbers that can occur   *)
(* are the negative tags below.                                            *)
(***************************************************************************)
EXTENDS Integers, Sequences, FiniteSets, TLC

(***************************************************************************)
(* Bounds of the model.                                                    *)
(***************************************************************************)
\* longest literal directive body (characters after ":") that is enumerated
MaxLit == 2
\* longest stroke list built from SampleTokens
MaxStrokes == 2

(***************************************************************************)
(* Characters and strings.                                                 *)
(***************************************************************************)
\* ":" , the first character of a literal directive
Colon == 58

\* "left", "up", "right", "down", "alt", "enter", "esc" as code points
NameLeft == <<108, 101, 102, 116>>
NameUp == <<117, 112>>
NameRight == <<114, 105, 103, 104, 116>>
NameDown == <<100, 111, 119, 110>>
NameAlt == <<97, 108, 116>>
NameEnter == <<101, 110, 116, 101, 114>>
NameEsc == <<101, 115, 99>>
KeyNames == {NameLeft, NameUp, NameRight, NameDown, NameAlt, NameEnter, NameEsc}

\* "constructor" and "__proto__": the all-lower-case properties that every
\* object literal inherits from Object.prototype
NameConstructor == <<99, 111, 110, 115, 116, 114, 117, 99, 116, 111, 114>>
NameProto == <<95, 95, 112, 114, 111, 116, 111, 95, 95>>

\* JavaScript values that are not numbers
Undefined == -1
ObjectConstructor == -2
ObjectPrototype == -3

\* String.prototype.toUpperCase on one character: the UTF-16 code units of
\* the result (Unicode SpecialCasing: sharp s becomes "SS", dotless i and
\* long s become "I" and "S", micro sign becomes capital mu)
ToUpperCase(char) ==
    IF char \in 97..122 THEN <<char - 32>>
    ELSE IF char = 223 THEN <<83, 83>>
    ELSE IF char = 305 THEN <<73>>
    ELSE IF char = 383 THEN <<83>>
    ELSE IF char = 181 THEN <<924>>
    ELSE <<char>>

\* String.prototype.toLowerCase on one character (capital I with dot becomes
\* "i" followed by a combining dot, the Kelvin sign becomes "k")
LowerChar(char) ==
    IF char \in 65..90 THEN <<char + 32>>
    ELSE IF char = 304 THEN <<105, 775>>
    ELSE IF char = 8490 THEN <<107>>
    ELSE <<char>>

RECURSIVE ToLowerCase(_)
ToLowerCase(command) ==
    IF command = <<>> THEN <<>>
    ELSE LowerChar(Head(command)) \o ToLowerCase(Tail(command))

(***************************************************************************)
(* toKeyCodes.  A result is [ok, codes, error]: ok = FALSE is a thrown     *)
(* Error, which carries no codes.                                          *)
(***************************************************************************)
Thrown(message) == [ok |-> FALSE, codes |-> <<>>, error |-> message]
Returned(codes) == [ok |-> TRUE, codes |-> codes, error |-> "none"]

\* AlphanumCode without the toUpperCase: the ordinal of the character as typed
AlphanumCodeAsTyped(char) ==
    IF char >= 48 /\ char <= 57 THEN Returned(<<char>>)
    ELSE IF char >= 65 /\ char <= 90 THEN Returned(<<char>>)
    ELSE Thrown("non-alphanumeric char")

\* the callback of rest.map: one character of a literal directive
AlphanumCode(char) ==
    LET alphanumCode == ToUpperCase(char)[1]
    IN  IF alphanumCode >= 48 /\ alphanumCode <= 57 THEN Returned(<<alphanumCode>>)
        ELSE IF alphanumCode >= 65 /\ alphanumCode <= 90 THEN Returned(<<alphanumCode>>)
        ELSE Thrown("non-alphanumeric char")

\* rest.map(...): the codes of all characters, or the first throw
RECURSIVE LiteralCodes(_)
LiteralCodes(rest) ==
    IF rest = <<>> THEN Returned(<<>>)
    ELSE LET c == AlphanumCode(Head(rest))
         IN  IF ~c.ok THEN c
             ELSE LET more == LiteralCodes(Tail(rest))
                  IN  IF ~more.ok THEN more ELSE Returned(c.codes \o more.codes)

\* manualMap[key]: an own property, else one inherited from Object.prototype,
\* else undefined
ManualMap(key) ==
    IF key = NameLeft THEN 37
    ELSE IF key = NameUp THEN 38
    ELSE IF key = NameRight THEN 39
    ELSE IF key = NameDown THEN 40
    ELSE IF key = NameAlt THEN 18
    ELSE IF key = NameEnter THEN 13
    ELSE IF key = NameEsc THEN 27
    ELSE IF key = NameConstructor THEN ObjectConstructor
    ELSE IF key = NameProto THEN ObjectPrototype
    ELSE Undefined

\* the truthiness test of `if (manualCode)`
Truthy(value) == value # Undefined /\ value # 0

\* CommandCodes without the toLowerCase: the table is looked up as typed
CommandCodesAsTyped(command) ==
    IF Len(command) > 0 /\ command[1] = Colon
    THEN LiteralCodes(Tail(command))
    ELSE LET manualCode == ManualMap(command)
         IN  IF Truthy(manualCode) THEN Returned(<<manualCode>>)
             ELSE Thrown("can't convert")

\* the callback of strokes.flatMap: one stroke token
CommandCodes(command) ==
    IF Len(command) > 0 /\ command[1] = Colon
    THEN LiteralCodes(Tail(command))
    ELSE LET manualCode == ManualMap(ToLowerCase(command))
         IN  IF Truthy(manualCode) THEN Returned(<<manualCode>>)
             ELSE Thrown("can't convert")

RECURSIVE toKeyCodes(_)
toKeyCodes(strokes) ==
    IF strokes = <<>> THEN Returned(<<>>)
    ELSE LET c == CommandCodes(Head(strokes))
         IN  IF ~c.ok THEN c
             ELSE LET more == toKeyCodes(Tail(strokes))
                  IN  IF ~more.ok THEN more ELSE Returned(c.codes \o more.codes)

(***************************************************************************)
(* Inputs of the translator.                                               *)
(***************************************************************************)
SeqUpTo(S, n) == UNION {[1..k -> S] : k \in 0..n}

\* characters tried inside literal directives: the ends of the ranges 0-9,
\* A-Z and a-z, their outer neighbours / : @ [ ` {, and sharp s, dotless i
LitChars == {48, 57, 65, 90, 97, 122, 47, 58, 64, 91, 96, 123, 223, 305}

Literals == {<<Colon>> \o s : s \in SeqUpTo(LitChars, MaxLit)}

\* a name with any subset of its letters in upper case
CaseVariants(name) ==
    {[i \in 1..Len(name) |-> IF i \in U THEN name[i] - 32 ELSE name[i]] :
        U \in SUBSET (1..Len(name))}

NamedKeys == UNION {CaseVariants(name) : name \in KeyNames}

\* tokens that are neither: "", "lef", "lefts", " ", "x", "A:", "constructor",
\* "Constructor", "__proto__", "r" + capital I with dot + "ght", Kelvin sign
OtherTokens ==
    {<<>>, <<108, 101, 102>>, <<108, 101, 102, 116, 115>>, <<32>>, <<120>>,
     <<65, 58>>, NameConstructor, <<67>> \o Tail(NameConstructor), NameProto,
     <<114, 304, 103, 104, 116>>, <<8490>>}

Tokens == Literals \cup NamedKeys \cup OtherTokens

\* ":a9", "enter", "LEFT", ":", ":a!", "bogus"
SampleTokens ==
    {<<Colon, 97, 57>>, NameEnter, <<76, 69, 70, 84>>, <<Colon>>,
     <<Colon, 97, 33>>, <<98, 111, 103, 117, 115>>}

TranslateInputs == {<<t>> : t \in Tokens} \cup SeqUpTo(SampleTokens, MaxStrokes)

(***************************************************************************)
(* State.                                                                  *)
(***************************************************************************)
VARIABLES
    tStrokes,   \* toKeyCodes on its own: the stroke list handed to it
    tDone,      \* toKeyCodes on its own: it has run
    tResult,    \* toKeyCodes on its own: what it returned or threw
    postStart,  \* props.postStart
    setupPc,    \* the await setup is suspended in, or "done" / "failed"
    runtimeRef, \* runtimeRef.current is set
    dosapp,     \* dosapp.current is set
    isError,    \* the isError state of the component
    events,     \* every simulateKeyEvent(code, down) the emulator received
    calls,      \* the sendStrokes calls: 0 is setup's, 1.. are the driver's
    timers,     \* the pending sleep(100) timers, oldest first
    unmounted,  \* the component was unmounted: the effect's cleanup has run
    exited,     \* dosapp.current.exit() has been called
    canvas,     \* the pixels the canvas shows in the watched region
    aborted,    \* abortSignal.aborted of the driver's abort signal
    watches,    \* the watchForImage calls
    live,       \* the emulator's live filesystem (runtime.fs)
    store,      \* the FILE_DATA object store of the IndexedDB database
    fresh,      \* per path: the writeFile nothing has touched the file since
    lastWrite,  \* how the latest writeFile call ended
    gets        \* the getFile calls

tvars == <<tStrokes, tDone, tResult>>
kvars == <<postStart, setupPc, runtimeRef, dosapp, isError, events, calls, timers>>
lvars == <<unmounted, exited>>
wvars == <<canvas, aborted, watches>>
fvars == <<live, store, fresh, lastWrite, gets>>
vars == <<tStrokes, tDone, tResult, postStart, setupPc, runtimeRef, dosapp,
          isError, events, calls, timers, unmounted, exited, canvas, aborted,
          watches,
          live, store, fresh, lastWrite, gets>>

(***************************************************************************)
(* sendStrokes.                                                            *)
(***************************************************************************)
\* driver calls of sendStrokes that are modelled
MaxCalls == 2
\* the settle delay
SettleMs == 100

SetupCall == 0
CallIds == 0..MaxCalls

KeyEvent(code, down) == [kind |-> "key", code |-> code, down |-> down]
Slept(ms) == [kind |-> "sleep", ms |-> ms]
IsKey(item) == item.kind = "key"

\* a call that has not been made
NoCall ==
    [state |-> "unused", strokes |-> <<>>, codes |-> <<>>, next |-> 0,
     surface |-> FALSE, error |-> "none", trace |-> <<>>]

\* BeginSend with the call on dosapp.current guarded (`dosapp.current?.`):
\* an unset command interface is skipped over instead of throwing
BeginSendGuarded(strokes, surface) ==
    LET keycodes == toKeyCodes(strokes)
        call == [NoCall EXCEPT !.strokes = strokes, !.surface = surface]
    IN  IF ~keycodes.ok
        THEN [call EXCEPT !.state = "rejected", !.error = "InvalidStroke"]
        ELSE IF keycodes.codes = <<>>
        THEN [call EXCEPT !.state = "resolved"]
        ELSE [call EXCEPT !.state = "down", !.codes = keycodes.codes, !.next = 1,
                          !.trace = IF surface
                                    THEN <<KeyEvent(keycodes.codes[1], TRUE)>>
                                    ELSE <<>>]

\* sendStrokes up to its first await: toKeyCodes, then the first key down.
\* `surface` tells whether dosapp.current is set; calling a method of null
\* throws a TypeError.
BeginSend(strokes, surface) ==
    LET keycodes == toKeyCodes(strokes)
        call == [NoCall EXCEPT !.strokes = strokes, !.surface = surface]
    IN  IF ~keycodes.ok
        THEN [call EXCEPT !.state = "rejected", !.error = "InvalidStroke"]
        ELSE IF keycodes.codes = <<>>
        THEN [call EXCEPT !.state = "resolved"]
        ELSE IF ~surface
        THEN [call EXCEPT !.state = "rejected", !.error = "NotReady",
                          !.codes = keycodes.codes]
        ELSE [call EXCEPT !.state = "down", !.codes = keycodes.codes, !.next = 1,
                          !.trace = <<KeyEvent(keycodes.codes[1], TRUE)>>]

\* ResumeSend without the second `await sleep(100)`: the next key goes down
\* right after the key up
ResumeSendNoSettle(call) ==
    LET up == <<Slept(SettleMs), KeyEvent(call.codes[call.next], FALSE)>>
    IN  IF call.next < Len(call.codes)
        THEN [call EXCEPT !.next = @ + 1,
                          !.trace = @ \o up \o
                                    <<KeyEvent(call.codes[call.next + 1], TRUE)>>]
        ELSE [call EXCEPT !.state = "resolved", !.trace = @ \o up]

\* sendStrokes from the end of one sleep(100) to the next await or the return
ResumeSend(call) ==
    IF call.state = "down"
    THEN [call EXCEPT !.state = "up",
                      !.trace = @ \o <<Slept(SettleMs),
                                       KeyEvent(call.codes[call.next], FALSE)>>]
    ELSE IF call.next < Len(call.codes)
    THEN [call EXCEPT !.state = "down", !.next = @ + 1,
                      !.trace = @ \o <<Slept(SettleMs),
                                       KeyEvent(call.codes[call.next + 1], TRUE)>>]
    ELSE [call EXCEPT !.state = "resolved", !.trace = @ \o <<Slept(SettleMs)>>]

\* the key events a step of a call injected
Injected(before, after) ==
    SelectSeq(SubSeq(after.trace, Len(before.trace) + 1, Len(after.trace)), IsKey)

Suspended(call) == call.state \in {"down", "up"}

\* ":a" "LEFT" / "enter" / "enter" ":a!" / ":" + sharp s / nothing
KeyLists ==
    {<<<<Colon, 97>>, <<76, 69, 70, 84>>>>, <<NameEnter>>,
     <<NameEnter, <<Colon, 97, 33>>>>, <<<<Colon, 223>>>>, <<>>}

\* nothing / "enter" / "bogus" / ":" + sharp s
PostStarts ==
    {<<>>, <<NameEnter>>, <<<<98, 111, 103, 117, 115>>>>, <<<<Colon, 223>>>>}

\* the driver calls sendStrokes through the handle, which is there while the
\* component is mounted
CallSendStrokes(id, strokes) ==
    /\ id # SetupCall
    /\ ~unmounted
    /\ calls[id].state = "unused"
    /\ \A j \in 1..(id - 1) : calls[j].state # "unused"
    /\ LET call == BeginSend(strokes, dosapp)
       IN  /\ calls' = [calls EXCEPT ![id] = call]
           /\ events' = events \o Injected(NoCall, call)
           /\ timers' = IF Suspended(call) THEN Append(timers, id) ELSE timers
    /\ UNCHANGED <<postStart, setupPc, runtimeRef, dosapp, isError>>

\* the oldest sleep(100) ends and its call runs on
TimerFires ==
    /\ timers # <<>>
    /\ LET id == Head(timers)
           call == ResumeSend(calls[id])
       IN  /\ calls' = [calls EXCEPT ![id] = call]
           /\ events' = events \o Injected(calls[id], call)
           /\ timers' = IF Suspended(call) THEN Append(Tail(timers), id)
                        ELSE Tail(timers)
           /\ setupPc' = IF id = SetupCall /\ call.state = "resolved"
                         THEN "done" ELSE setupPc
    /\ UNCHANGED <<postStart, runtimeRef, dosapp, isError>>

(***************************************************************************)
(* setup, started by the effect when the component is mounted.             *)
(***************************************************************************)
\* await import('js-dos') is fulfilled; Dos(canvas, options) is called
ImportResolves ==
    /\ setupPc = "import"
    /\ setupPc' = "Dos"
    /\ UNCHANGED <<postStart, runtimeRef, dosapp, isError, events, calls, timers>>

\* await Dos(...) is fulfilled; the runtime is stored, extract is called
DosResolves ==
    /\ setupPc = "Dos"
    /\ runtimeRef' = TRUE
    /\ setupPc' = "extract"
    /\ UNCHANGED <<postStart, dosapp, isError, events, calls, timers>>

ExtractResolves ==
    /\ setupPc = "extract"
    /\ setupPc' = "chdir"
    /\ UNCHANGED <<postStart, runtimeRef, dosapp, isError, events, calls, timers>>

ChdirResolves ==
    /\ setupPc = "chdir"
    /\ setupPc' = "main"
    /\ UNCHANGED <<postStart, runtimeRef, dosapp, isError, events, calls, timers>>

\* await runtime.main(...) is fulfilled: the command interface is stored and
\* sendStrokes(postStart) runs to its first await; its throw is caught by
\* the effect's catch, which sets isError
MainResolves ==
    /\ setupPc = "main"
    /\ dosapp' = TRUE
    /\ LET call == BeginSend(postStart, TRUE)
       IN  /\ calls' = [calls EXCEPT ![SetupCall] = call]
           /\ events' = events \o Injected(NoCall, call)
           /\ timers' = IF Suspended(call) THEN Append(timers, SetupCall) ELSE timers
           /\ setupPc' = IF call.state = "rejected" THEN "failed"
                         ELSE IF call.state = "resolved" THEN "done"
                         ELSE "postStart"
           /\ isError' = (isError \/ call.state = "rejected")
    /\ UNCHANGED <<postStart, runtimeRef>>

\* one of the awaited promises of setup is rejected
SetupAwaitRejects ==
    /\ setupPc \in {"import", "Dos", "extract", "chdir", "main"}
    /\ setupPc' = "failed"
    /\ isError' = TRUE
    /\ UNCHANGED <<postStart, runtimeRef, dosapp, events, calls, timers>>

\* the component is unmounted: the cleanup of the effect runs, once, and calls
\* exit() if dosapp.current is set; setup and the pending sendStrokes calls
\* are not cancelled
Unmount ==
    /\ ~unmounted
    /\ unmounted' = TRUE
    /\ exited' = dosapp
    /\ UNCHANGED kvars

(***************************************************************************)
(* hasImage and watchForImage.                                             *)
(***************************************************************************)
\* watchForImage calls that are modelled
MaxWatches == 2
\* polls one call makes at most
MaxPolls == 2

WatchIds == 1..MaxWatches

\* what the watched region can show; a freshly mounted canvas is blank
Frames == {"blank", "menu", "game"}

\* the encoding of the region's pixels that imageData holds
imgToBase64(pixels) == [base64 |-> pixels]

\* the WatchImage fixture of the driver: the region showing the menu
WatchImages == {[imageData |-> imgToBase64("menu")]}

\* the canvas is rendered, and canvasRef.current set, unless isError
CanvasMounted == ~isError

\* hasImage on a mounted canvas
hasImage(image) == imgToBase64(canvas) = image.imageData

NoWatch ==
    [state |-> "unused", image |-> [imageData |-> imgToBase64("menu")],
     signal |-> FALSE, polls |-> 0, sawMatch |-> FALSE,
     matchedAtCall |-> FALSE, abortedAtCall |-> FALSE]

\* PollWatch with the abort signal never read
PollWatchIgnoresSignal(watch, mounted, has, isAborted) ==
    IF ~mounted
    THEN [watch EXCEPT !.state = "rejected", !.polls = @ + 1]
    ELSE [watch EXCEPT !.state = IF has THEN "resolved" ELSE "sleeping", !.polls = @ + 1]

\* PollWatch with a limit of its own: the second poll ends the watch
PollWatchTimesOut(watch, mounted, has, isAborted) ==
    IF ~mounted
    THEN [watch EXCEPT !.state = "rejected", !.polls = @ + 1]
    ELSE LET matched == has \/ (watch.signal /\ isAborted) \/ watch.polls >= 1
         IN  [watch EXCEPT !.state = IF matched THEN "resolved" ELSE "sleeping",
                           !.polls = @ + 1]

\* watchForImage from the end of a sleep(interval) to the next one or the
\* return: matched = hasImage(image) || (abortSignal && abortSignal.aborted);
\* hasImage throws a TypeError when canvasRef.current is null
PollWatch(watch, mounted, has, isAborted) ==
    IF ~mounted
    THEN [watch EXCEPT !.state = "rejected", !.polls = @ + 1]
    ELSE LET matched == has \/ (watch.signal /\ isAborted)
         IN  [watch EXCEPT !.state = IF matched THEN "resolved" ELSE "sleeping",
                           !.polls = @ + 1]

\* watchForImage as a loop that checks before it sleeps: a call made when
\* the region matches or the signal is set returns at once
CallWatchChecksFirst(id, image, signal) ==
    /\ watches[id].state = "unused"
    /\ \A j \in 1..(id - 1) : watches[j].state # "unused"
    /\ watches' = [watches EXCEPT ![id] =
                      PollWatch([NoWatch EXCEPT !.state = "sleeping",
                                                !.image = image,
                                                !.signal = signal],
                                CanvasMounted, hasImage(image), aborted)]
    /\ UNCHANGED <<canvas, aborted>>

\* the driver calls watchForImage, with or without the abort signal: the call
\* runs to its first await sleep(interval); what the region and the signal
\* were at the call is kept
CallWatchForImage(id, image, signal) ==
    /\ watches[id].state = "unused"
    /\ \A j \in 1..(id - 1) : watches[j].state # "unused"
    /\ watches' = [watches EXCEPT ![id] =
                      [NoWatch EXCEPT !.state = "sleeping", !.image = image,
                                      !.signal = signal,
                                      !.sawMatch = CanvasMounted /\ hasImage(image),
                                      !.matchedAtCall =
                                          CanvasMounted /\ hasImage(image),
                                      !.abortedAtCall = signal /\ aborted]]
    /\ UNCHANGED <<canvas, aborted>>

\* WatchTimerFires with a watch that takes the signal it has seen back
WatchTimerFiresResets(id) ==
    /\ watches[id].state = "sleeping"
    /\ watches[id].polls < MaxPolls
    /\ watches' = [watches EXCEPT ![id] =
                      PollWatch(@, CanvasMounted, hasImage(@.image), aborted)]
    /\ aborted' = (aborted /\ ~watches[id].signal)
    /\ UNCHANGED canvas

\* the sleep(interval) of a call ends
WatchTimerFires(id) ==
    /\ watches[id].state = "sleeping"
    /\ watches[id].polls < MaxPolls
    /\ watches' = [watches EXCEPT ![id] =
                      PollWatch(@, CanvasMounted, hasImage(@.image), aborted)]
    /\ UNCHANGED <<canvas, aborted>>

\* the emulator, once started, draws another frame
FrameChanges(frame) ==
    /\ runtimeRef
    /\ CanvasMounted
    /\ frame # canvas
    /\ canvas' = frame
    /\ watches' = [id \in WatchIds |->
                      IF /\ watches[id].state = "sleeping"
                         /\ imgToBase64(frame) = watches[id].image.imageData
                      THEN [watches[id] EXCEPT !.sawMatch = TRUE]
                      ELSE watches[id]]
    /\ UNCHANGED aborted

\* the driver aborts its signal
Abort ==
    /\ ~aborted
    /\ aborted' = TRUE
    /\ UNCHANGED <<canvas, watches>>

(***************************************************************************)
(* writeFile and getFile.  The awaited calls of the runtime and of         *)
(* IndexedDB are taken to be fulfilled; syncFs is one step that mirrors    *)
(* the live filesystem into the store.                                     *)
(***************************************************************************)
\* getFile calls that are modelled
MaxGets == 1

GetIds == 1..MaxGets

Paths == {"/game/save.dat", "/game/hiscore.dat"}
\* the byte sequence the driver writes, and the one the program saves
Contents == {<<1, 2, 3>>}
ProgramContents == {<<7>>}

NoFile == [exists |-> FALSE, contents |-> <<>>]
File(contents) == [exists |-> TRUE, contents |-> contents]

\* idb.get gives undefined for a key without a record
NoRecord == [found |-> FALSE, contents |-> <<>>]
Record(contents) == [found |-> TRUE, contents |-> contents]

\* emscriptenFs.unlink(path)
unlink(fs, path) == [fs EXCEPT ![path] = NoFile]

\* fs.createFile(path, contents): creates the file; a file that is already
\* there is not overwritten
createFile(fs, path, contents) ==
    IF fs[path].exists THEN fs ELSE [fs EXCEPT ![path] = File(contents)]

\* WriteLive without the unlink
WriteLiveNoUnlink(fs, path, contents) == createFile(fs, path, contents)

\* the body of writeFile on the live filesystem
WriteLive(fs, path, contents) ==
    createFile(IF fs[path].exists THEN unlink(fs, path) ELSE fs, path, contents)

\* SyncFs left out: the store stays as it was
SyncFsSkipped(fs, db) == db

\* fs.syncFs(): every file of the live filesystem is persisted, every record
\* without a file is dropped
SyncFs(fs, db) ==
    [path \in Paths |->
        IF fs[path].exists THEN Record(fs[path].contents) ELSE NoRecord]

\* a file as writeFile(path, contents) left it, and whether the call found a
\* file at the path
NotFresh == [found |-> FALSE, contents |-> <<>>, existed |-> FALSE]
Fresh(contents, existed) ==
    [found |-> TRUE, contents |-> contents, existed |-> existed]

NoGet ==
    [state |-> "unused", path |-> "/game/save.dat", result |-> <<>>,
     error |-> "none", fresh |-> NotFresh, changed |-> FALSE,
     ownSync |-> NoFile, overtaken |-> FALSE]

\* FinishGet with the record guarded (`file?.contents`): no record gives
\* an undefined result instead of a throw
FinishGetGuarded(call, file) ==
    [call EXCEPT !.state = "resolved", !.result = file.contents]

\* the end of getFile: `return file.contents`, a TypeError when idb.get gave
\* undefined
FinishGet(call, file) ==
    IF file.found
    THEN [call EXCEPT !.state = "resolved", !.result = file.contents]
    ELSE [call EXCEPT !.state = "rejected", !.error = "FileNotFound"]

\* a getFile call that has synced no longer follows the live file `path`
Touch(path) ==
    [id \in GetIds |->
        IF gets[id].path = path /\ gets[id].state \in {"openDB", "get"}
        THEN [gets[id] EXCEPT !.fresh = NotFresh]
        ELSE gets[id]]

\* CallWriteFile with an await between the unlink and the createFile: a call
\* that finds a file is suspended once it has removed it
CallWriteFileYields(path, contents) ==
    IF ~runtimeRef
    THEN /\ lastWrite' = "rejected"
         /\ UNCHANGED <<live, store, fresh, gets>>
    ELSE /\ live' = IF live[path].exists THEN unlink(live, path)
                    ELSE createFile(live, path, contents)
         /\ fresh' = [fresh EXCEPT ![path] = Fresh(contents, live[path].exists)]
         /\ gets' = Touch(path)
         /\ lastWrite' = "resolved"
         /\ UNCHANGED store

\* the driver calls writeFile: it has no await and runs to its end; with
\* runtimeRef.current not set it throws a TypeError
CallWriteFile(path, contents) ==
    IF ~runtimeRef
    THEN /\ lastWrite' = "rejected"
         /\ UNCHANGED <<live, store, fresh, gets>>
    ELSE /\ live' = WriteLive(live, path, contents)
         /\ fresh' = [fresh EXCEPT ![path] = Fresh(contents, live[path].exists)]
         /\ gets' = Touch(path)
         /\ lastWrite' = "resolved"
         /\ UNCHANGED store

\* the driver calls getFile: with runtimeRef.current not set it throws a
\* TypeError, else syncFs() is called and awaited
CallGetFile(id, path) ==
    /\ gets[id].state = "unused"
    /\ \A j \in 1..(id - 1) : gets[j].state # "unused"
    /\ gets' = [gets EXCEPT ![id] =
                   IF runtimeRef
                   THEN [NoGet EXCEPT !.state = "syncFs", !.path = path]
                   ELSE [NoGet EXCEPT !.state = "rejected", !.path = path,
                                      !.error = "NotReady"]]
    /\ UNCHANGED <<live, store, fresh, lastWrite>>

\* a getFile call between its sync and its lookup, when the sync of another
\* call turns the store from `db` into `synced`: it is overtaken if the record
\* of its path changes
Overtake(call, db, synced) ==
    IF call.state \in {"openDB", "get"} /\ synced[call.path] # db[call.path]
    THEN [call EXCEPT !.overtaken = TRUE]
    ELSE call

\* the sync of a getFile call completes; openDB is called and awaited.  The
\* call keeps what the live filesystem holds for its path at this moment.
SyncCompletes(id) ==
    /\ gets[id].state = "syncFs"
    /\ store' = SyncFs(live, store)
    /\ gets' = [j \in GetIds |->
                   IF j = id
                   THEN [gets[id] EXCEPT !.state = "openDB",
                                         !.fresh = fresh[gets[id].path],
                                         !.changed = (SyncFs(live, store) # store),
                                         !.ownSync = live[gets[id].path]]
                   ELSE Overtake(gets[j], store, SyncFs(live, store))]
    /\ UNCHANGED <<live, fresh, lastWrite>>

\* a further getFile call, of which the model keeps no record: all it changes
\* is the store, when its sync completes.  It is followed where it can make a
\* difference to a call the model keeps: where that call is between its sync
\* and its lookup and the sync changes the record of its path.
OtherGetFileSyncs ==
    /\ runtimeRef
    /\ \E id \in GetIds :
          /\ gets[id].state \in {"openDB", "get"}
          /\ SyncFs(live, store)[gets[id].path] # store[gets[id].path]
    /\ store' = SyncFs(live, store)
    /\ gets' = [j \in GetIds |-> Overtake(gets[j], store, SyncFs(live, store))]
    /\ UNCHANGED <<live, fresh, lastWrite>>

\* openDB is fulfilled; idb.get('FILE_DATA', path) is called and awaited
OpenResolves(id) ==
    /\ gets[id].state = "openDB"
    /\ gets' = [gets EXCEPT ![id] = [@ EXCEPT !.state = "get"]]
    /\ UNCHANGED <<live, store, fresh, lastWrite>>

\* GetResolves reading the live file instead of the record of the store
GetResolvesFromLive(id) ==
    /\ gets[id].state = "get"
    /\ gets' = [gets EXCEPT ![id] =
                   [FinishGet(gets[id],
                              IF live[gets[id].path].exists
                              THEN Record(live[gets[id].path].contents)
                              ELSE NoRecord)
                       EXCEPT !.ownSync = NoFile, !.overtaken = FALSE,
                              !.changed = @ /\ ~live[gets[id].path].exists]]
    /\ UNCHANGED <<live, store, fresh, lastWrite>>

\* idb.get is fulfilled with the record of the path, or with undefined; what
\* the call kept of its sync is dropped, but for a call that fails whether
\* its sync changed the store
GetResolves(id) ==
    /\ gets[id].state = "get"
    /\ gets' = [gets EXCEPT ![id] =
                   [FinishGet(gets[id], store[gets[id].path])
                       EXCEPT !.ownSync = NoFile, !.overtaken = FALSE,
                              !.changed = @ /\ ~store[gets[id].path].found]]
    /\ UNCHANGED <<live, store, fresh, lastWrite>>

\* the emulated program, once launched, saves a file
ProgramWrites(path, contents) ==
    /\ dosapp
    /\ live[path] # File(contents)
    /\ live' = [live EXCEPT ![path] = File(contents)]
    /\ fresh' = [fresh EXCEPT ![path] = NotFresh]
    /\ gets' = Touch(path)
    /\ UNCHANGED <<store, lastWrite>>

\* the emulated program deletes a file
ProgramDeletes(path) ==
    /\ dosapp
    /\ live[path].exists
    /\ live' = [live EXCEPT ![path] = NoFile]
    /\ fresh' = [fresh EXCEPT ![path] = NotFresh]
    /\ gets' = Touch(path)
    /\ UNCHANGED <<store, lastWrite>>

(***************************************************************************)
(* The specifications.                                                     *)
(***************************************************************************)
TIdle ==
    /\ tStrokes = <<>>
    /\ tDone = FALSE
    /\ tResult = Returned(<<>>)

KIdle ==
    /\ postStart = <<>>
    /\ setupPc = "import"
    /\ runtimeRef = FALSE
    /\ dosapp = FALSE
    /\ isError = FALSE
    /\ events = <<>>
    /\ calls = [id \in CallIds |-> NoCall]
    /\ timers = <<>>

LIdle ==
    /\ unmounted = FALSE
    /\ exited = FALSE

WIdle ==
    /\ canvas = "blank"
    /\ aborted = FALSE
    /\ watches = [id \in WatchIds |-> NoWatch]

FIdle ==
    /\ live = [path \in Paths |-> NoFile]
    /\ store = [path \in Paths |-> NoRecord]
    /\ fresh = [path \in Paths |-> NotFresh]
    /\ lastWrite = "unused"
    /\ gets = [id \in GetIds |-> NoGet]

\* The translator on its own: every input of TranslateInputs is translated.
InitT ==
    /\ tStrokes \in TranslateInputs
    /\ tDone = FALSE
    /\ tResult = Returned(<<>>)
    /\ KIdle
    /\ LIdle
    /\ WIdle
    /\ FIdle

Translate ==
    /\ ~tDone
    /\ tDone' = TRUE
    /\ tResult' = toKeyCodes(tStrokes)
    /\ UNCHANGED tStrokes
    /\ UNCHANGED <<kvars, lvars, wvars, fvars>>

NextT == Translate

SpecT == InitT /\ [][NextT]_vars

\* The mounted component: setup runs while the driver sends strokes.
Init ==
    /\ TIdle
    /\ postStart \in PostStarts
    /\ setupPc = "import"
    /\ runtimeRef = FALSE
    /\ dosapp = FALSE
    /\ isError = FALSE
    /\ events = <<>>
    /\ calls = [id \in CallIds |-> NoCall]
    /\ timers = <<>>
    /\ LIdle
    /\ WIdle
    /\ FIdle

Next ==
    \/ ImportResolves /\ UNCHANGED <<tvars, lvars, wvars, fvars>>
    \/ DosResolves /\ UNCHANGED <<tvars, lvars, wvars, fvars>>
    \/ ExtractResolves /\ UNCHANGED <<tvars, lvars, wvars, fvars>>
    \/ ChdirResolves /\ UNCHANGED <<tvars, lvars, wvars, fvars>>
    \/ MainResolves /\ UNCHANGED <<tvars, lvars, wvars, fvars>>
    \/ SetupAwaitRejects /\ UNCHANGED <<tvars, lvars, wvars, fvars>>
    \/ TimerFires /\ UNCHANGED <<tvars, lvars, wvars, fvars>>
    \/ Unmount /\ UNCHANGED <<tvars, wvars, fvars>>
    \/ \E id \in CallIds, strokes \in KeyLists :
          CallSendStrokes(id, strokes) /\ UNCHANGED <<tvars, lvars, wvars, fvars>>

Spec == Init /\ [][Next]_vars

\* The steps the event loop owes the component: every pending promise of
\* setup is settled and every pending sleep(100) timer fires.  Unmounting and
\* the driver's calls are up to the page.
Progress ==
    \/ ImportResolves /\ UNCHANGED <<tvars, lvars, wvars, fvars>>
    \/ DosResolves /\ UNCHANGED <<tvars, lvars, wvars, fvars>>
    \/ ExtractResolves /\ UNCHANGED <<tvars, lvars, wvars, fvars>>
    \/ ChdirResolves /\ UNCHANGED <<tvars, lvars, wvars, fvars>>
    \/ MainResolves /\ UNCHANGED <<tvars, lvars, wvars, fvars>>
    \/ SetupAwaitRejects /\ UNCHANGED <<tvars, lvars, wvars, fvars>>
    \/ TimerFires /\ UNCHANGED <<tvars, lvars, wvars, fvars>>

SpecL == Init /\ [][Next]_vars /\ WF_vars(Progress)

\* The mounted component with a driver that watches for images while setup
\* runs and the emulator draws.
InitW ==
    /\ TIdle
    /\ KIdle
    /\ LIdle
    /\ WIdle
    /\ FIdle

NextW ==
    \/ ImportResolves /\ UNCHANGED <<tvars, lvars, wvars, fvars>>
    \/ DosResolves /\ UNCHANGED <<tvars, lvars, wvars, fvars>>
    \/ ExtractResolves /\ UNCHANGED <<tvars, lvars, wvars, fvars>>
    \/ ChdirResolves /\ UNCHANGED <<tvars, lvars, wvars, fvars>>
    \/ MainResolves /\ UNCHANGED <<tvars, lvars, wvars, fvars>>
    \/ SetupAwaitRejects /\ UNCHANGED <<tvars, lvars, wvars, fvars>>
    \/ \E id \in WatchIds, image \in WatchImages, signal \in BOOLEAN :
          CallWatchForImage(id, image, signal) /\ UNCHANGED <<tvars, kvars, lvars, fvars>>
    \/ \E id \in WatchIds : WatchTimerFires(id) /\ UNCHANGED <<tvars, kvars, lvars, fvars>>
    \/ \E frame \in Frames : FrameChanges(frame) /\ UNCHANGED <<tvars, kvars, lvars, fvars>>
    \/ Abort /\ UNCHANGED <<tvars, kvars, lvars, fvars>>

SpecW == InitW /\ [][NextW]_vars

\* The mounted component with a driver that writes and reads files while
\* setup runs and the emulated program saves and deletes files.
InitF ==
    /\ TIdle
    /\ KIdle
    /\ LIdle
    /\ WIdle
    /\ FIdle

NextF ==
    \/ ImportResolves /\ UNCHANGED <<tvars, lvars, wvars, fvars>>
    \/ DosResolves /\ UNCHANGED <<tvars, lvars, wvars, fvars>>
    \/ ExtractResolves /\ UNCHANGED <<tvars, lvars, wvars, fvars>>
    \/ ChdirResolves /\ UNCHANGED <<tvars, lvars, wvars, fvars>>
    \/ MainResolves /\ UNCHANGED <<tvars, lvars, wvars, fvars>>
    \/ SetupAwaitRejects /\ UNCHANGED <<tvars, lvars, wvars, fvars>>
    \/ \E path \in Paths, contents \in Contents :
          CallWriteFile(path, contents) /\ UNCHANGED <<tvars, kvars, lvars, wvars>>
    \/ \E id \in GetIds, path \in Paths :
          CallGetFile(id, path) /\ UNCHANGED <<tvars, kvars, lvars, wvars>>
    \/ \E id \in GetIds : SyncCompletes(id) /\ UNCHANGED <<tvars, kvars, lvars, wvars>>
    \/ OtherGetFileSyncs /\ UNCHANGED <<tvars, kvars, lvars, wvars>>
    \/ \E id \in GetIds : OpenResolves(id) /\ UNCHANGED <<tvars, kvars, lvars, wvars>>
    \/ \E id \in GetIds : GetResolves(id) /\ UNCHANGED <<tvars, kvars, lvars, wvars>>
    \/ \E path \in Paths, contents \in ProgramContents :
          ProgramWrites(path, contents) /\ UNCHANGED <<tvars, kvars, lvars, wvars>>
    \/ \E path \in Paths : ProgramDeletes(path) /\ UNCHANGED <<tvars, kvars, lvars, wvars>>

SpecF == InitF /\ [][NextF]_vars

(***************************************************************************)
(* What the claims speak of.                                               *)
(***************************************************************************)
\* 0-9, A-Z, a-z
Alphanumeric == (48..57) \cup (65..90) \cup (97..122)

\* the ASCII ordinal of an alphanumeric character, upper-cased
UpperOrdinal(char) == IF char \in 97..122 THEN char - 32 ELSE char

IsLiteral(token) == Len(token) > 0 /\ token[1] = Colon

AlnumLiteral(token) ==
    IsLiteral(token) /\ \A i \in 2..Len(token) : token[i] \in Alphanumeric

\* the value the table gives a name
TableCode(name) ==
    CASE name = NameLeft -> 37 [] name = NameUp -> 38 [] name = NameRight -> 39
      [] name = NameDown -> 40 [] name = NameAlt -> 18 [] name = NameEnter -> 13
      [] name = NameEsc -> 27

\* a token the data model allows: an alphanumeric literal directive or one
\* of the seven names in any mix of cases
ValidToken(token) == AlnumLiteral(token) \/ token \in NamedKeys

\* the events and delays of one complete send of `codes`
RECURSIVE ExpectedTrace(_)
ExpectedTrace(codes) ==
    IF codes = <<>> THEN <<>>
    ELSE <<KeyEvent(Head(codes), TRUE), Slept(100),
           KeyEvent(Head(codes), FALSE), Slept(100)>> \o ExpectedTrace(Tail(codes))

IsPrefix(s, t) == Len(s) <= Len(t) /\ SubSeq(t, 1, Len(s)) = s

OnlyCall(id) == \A j \in CallIds \ {id} : calls[j].trace = <<>>

(***************************************************************************)
(* C1: a sendStrokes call on a valid stroke list, with the command         *)
(* interface set, injects down(c1), up(c1), ..., down(cn), up(cn) in this  *)
(* order with one sleep(100) between adjacent events and one after the     *)
(* last up; it is resolved exactly when all 2n events and 2n delays are    *)
(* behind it, and when it is the only call the emulator has received       *)
(* exactly its events.                                                     *)
(***************************************************************************)
C1_SendOrder ==
    \A id \in CallIds :
        LET call == calls[id]
            keycodes == toKeyCodes(call.strokes)
        IN  (call.surface /\ keycodes.ok) =>
                /\ call.state \in {"down", "up", "resolved"}
                /\ IsPrefix(call.trace, ExpectedTrace(keycodes.codes))
                /\ (call.state = "resolved" <=>
                        call.trace = ExpectedTrace(keycodes.codes))
                /\ (call.state = "resolved" =>
                        Len(SelectSeq(call.trace, IsKey)) = 2 * Len(keycodes.codes))
                /\ (OnlyCall(id) => events = SelectSeq(call.trace, IsKey))

\* a driver call of ":a" "LEFT" has resolved after its four events
C1_Witness ==
    \E id \in CallIds \ {SetupCall} :
        /\ calls[id].state = "resolved"
        /\ calls[id].codes = <<65, 37>>
        /\ OnlyCall(id)
        /\ events = <<KeyEvent(65, TRUE), KeyEvent(65, FALSE),
                      KeyEvent(37, TRUE), KeyEvent(37, FALSE)>>

(***************************************************************************)
(* C4: a literal directive ":" + s with s alphanumeric gives len(s) codes, *)
(* the i-th the ASCII ordinal of the upper-cased i-th character.           *)
(***************************************************************************)
C4_AlnumLiteral ==
    (tDone /\ Len(tStrokes) = 1 /\ AlnumLiteral(tStrokes[1])) =>
        LET s == Tail(tStrokes[1])
        IN  /\ tResult.ok
            /\ Len(tResult.codes) = Len(s)
            /\ \A i \in 1..Len(s) : tResult.codes[i] = UpperOrdinal(s[i])

\* ":z0" has been translated to 90, 48
C4_Witness ==
    /\ tDone
    /\ tStrokes = <<<<Colon, 122, 48>>>>
    /\ tResult.ok
    /\ tResult.codes = <<90, 48>>

(***************************************************************************)
(* C5: each of the seven names, in any mix of cases, gives exactly one     *)
(* code, the table's value.                                                *)
(***************************************************************************)
C5_NamedKey ==
    \A name \in KeyNames :
        (tDone /\ Len(tStrokes) = 1 /\ tStrokes[1] \in CaseVariants(name)) =>
            tResult = Returned(<<TableCode(name)>>)

\* "EnTer" has been translated to 13
C5_Witness ==
    /\ tDone
    /\ tStrokes = <<<<69, 110, 84, 101, 114>>>>
    /\ tResult.codes = <<13>>

(***************************************************************************)
(* C6: a literal directive with a non-alphanumeric character makes         *)
(* toKeyCodes throw and return no code.                                    *)
(***************************************************************************)
C6_NonAlnumLiteralThrows ==
    (tDone /\ Len(tStrokes) = 1 /\ IsLiteral(tStrokes[1])
           /\ ~AlnumLiteral(tStrokes[1])) =>
        (~tResult.ok /\ tResult.codes = <<>>)

(***************************************************************************)
(* C7: a token that is no literal directive and whose lower-cased form is  *)
(* none of the seven names makes toKeyCodes throw.                         *)
(***************************************************************************)
C7_UnknownNameThrows ==
    (tDone /\ Len(tStrokes) = 1 /\ ~IsLiteral(tStrokes[1])
           /\ ToLowerCase(tStrokes[1]) \notin KeyNames) =>
        (~tResult.ok /\ tResult.codes = <<>>)

(***************************************************************************)
(* C8: a sendStrokes call (command interface set) whose list holds an      *)
(* invalid token is rejected with the invalid-stroke error and injects no  *)
(* key event.                                                              *)
(***************************************************************************)
C8_InvalidListSendsNothing ==
    \A id \in CallIds :
        LET call == calls[id]
        IN  (call.surface /\ \E k \in 1..Len(call.strokes) :
                                 ~ValidToken(call.strokes[k])) =>
                /\ call.state = "rejected"
                /\ call.error = "InvalidStroke"
                /\ call.trace = <<>>

(***************************************************************************)
(* C9, as claimed: every sendStrokes call made while dosapp.current is not *)
(* set is rejected with the not-ready error and injects nothing.           *)
(***************************************************************************)
C9_NotReadyAlwaysFails ==
    \A id \in CallIds :
        LET call == calls[id]
        IN  (call.state # "unused" /\ ~call.surface) =>
                /\ call.state = "rejected"
                /\ call.error = "NotReady"
                /\ call.trace = <<>>

(***************************************************************************)
(* C9, amended: a sendStrokes call made while dosapp.current is not set    *)
(* injects no key event and ends at once, without a retry: rejected with   *)
(* the not-ready error when the list translates to at least one code,      *)
(* rejected with the invalid-stroke error when a token does not translate, *)
(* and resolved when the list translates to no code.                       *)
(***************************************************************************)
C9_NotReadyNoEvents ==
    \A id \in CallIds :
        LET call == calls[id]
            keycodes == toKeyCodes(call.strokes)
        IN  (call.state # "unused" /\ ~call.surface) =>
                /\ call.trace = <<>>
                /\ call.state \in {"resolved", "rejected"}
                /\ (call.state = "rejected" /\ call.error = "NotReady") <=>
                        (keycodes.ok /\ keycodes.codes # <<>>)
                /\ (call.state = "rejected" /\ call.error = "InvalidStroke") <=>
                        ~keycodes.ok
                /\ call.state = "resolved" <=> (keycodes.ok /\ keycodes.codes = <<>>)

\* a call of "enter" made before setup stored the command interface was
\* rejected as not ready, and the emulator has received nothing
C9_Witness ==
    \E id \in CallIds \ {SetupCall} :
        /\ ~dosapp
        /\ calls[id].strokes = <<NameEnter>>
        /\ calls[id].state = "rejected"
        /\ calls[id].error = "NotReady"
        /\ events = <<>>

(***************************************************************************)
(* C2, as claimed: once hasImage(image) has been true at some instant of   *)
(* a watch, or the signal of the watch is set, the next poll ends the      *)
(* watch, however the frame has changed in between.                        *)
(***************************************************************************)
Polled(id) == watches'[id].polls = watches[id].polls + 1

C2_EndsAfterAnyMatch ==
    [][\A id \in WatchIds :
          (Polled(id) /\ (watches[id].sawMatch \/ (watches[id].signal /\ aborted)))
              => watches'[id].state # "sleeping"]_vars

(***************************************************************************)
(* C2, amended: a watch ends at the first poll at which hasImage(image) is *)
(* true or its signal is set, and at no other poll while the canvas is     *)
(* mounted: so at most one poll interval after the signal is set, and at   *)
(* most one interval after the region starts to match if it still matches  *)
(* at that poll.  A match that is gone again before the poll is not seen.  *)
(***************************************************************************)
C2_EndsAtMatchingPoll ==
    [][\A id \in WatchIds :
          Polled(id) =>
              LET watch == watches[id]
                  condition == hasImage(watch.image) \/ (watch.signal /\ aborted)
              IN  /\ (CanvasMounted /\ condition) => watches'[id].state = "resolved"
                  /\ (watch.signal /\ aborted) => watches'[id].state # "sleeping"
                  /\ (CanvasMounted /\ ~condition) => watches'[id].state = "sleeping"
                  /\ watches'[id].state = "resolved" => condition]_vars

\* a watch ended at its second poll by the region matching, no signal set;
\* another watch is still polling because the match it missed is gone
C2_Witness ==
    /\ ~aborted
    /\ \E id \in WatchIds :
          /\ watches[id].state = "resolved"
          /\ watches[id].polls = 2
          /\ hasImage(watches[id].image)
    /\ \E id \in WatchIds :
          /\ watches[id].state = "sleeping"
          /\ watches[id].polls >= 1
          /\ watches[id].sawMatch

(***************************************************************************)
(* C3: a getFile(path) whose sync ran after writeFile(path, bytes), with   *)
(* nothing else touching the path from the write to the end of the read,   *)
(* is resolved with exactly bytes; whether a file was at the path before   *)
(* the write makes no difference.                                          *)
(***************************************************************************)
C3_RoundTrip ==
    \A id \in GetIds :
        LET call == gets[id]
        IN  /\ (call.state \in {"openDB", "get"} /\ call.fresh.found) =>
                    store[call.path] = Record(call.fresh.contents)
            /\ (call.state \in {"resolved", "rejected"} /\ call.fresh.found) =>
                    (call.state = "resolved" /\ call.result = call.fresh.contents)

\* 1,2,3 was written over an existing file and read back
C3_Witness ==
    \E id \in GetIds :
        /\ gets[id].state = "resolved"
        /\ gets[id].fresh = Fresh(<<1, 2, 3>>, TRUE)
        /\ gets[id].result = <<1, 2, 3>>

(***************************************************************************)
(* C10, as claimed: a getFile that finds no record fails (it never returns *)
(* an empty value) and has left the records of all paths as they were.     *)
(***************************************************************************)
C10_MissingFileChangesNothing ==
    \A id \in GetIds :
        /\ gets[id].state = "resolved" => gets[id].result # <<>>
        /\ (gets[id].state = "rejected" /\ gets[id].error = "FileNotFound") =>
                ~gets[id].changed

(***************************************************************************)
(* C10, amended: the lookup of a getFile call whose path has no record     *)
(* after the forced sync fails with the file-not-found error and returns   *)
(* nothing; no step of getFile changes the live filesystem, and the only   *)
(* step that changes the store is the forced sync, which makes the records *)
(* of all paths mirror the live filesystem.                                *)
(***************************************************************************)
C10_MissingFileFails ==
    [][\A id \in GetIds :
          LET before == gets[id]
              after == gets'[id]
          IN  before.state # after.state =>
                  /\ (before.state = "get" /\ ~store[before.path].found) =>
                        /\ after.state = "rejected"
                        /\ after.error = "FileNotFound"
                        /\ after.result = <<>>
                  /\ (before.state = "get" /\ store[before.path].found) =>
                        /\ after.state = "resolved"
                        /\ after.result = store[before.path].contents
                  /\ live' = live
                  /\ before.state # "syncFs" => store' = store
                  /\ before.state = "syncFs" =>
                        \A path \in Paths :
                            /\ store'[path].found = live[path].exists
                            /\ store'[path].contents = live[path].contents]_vars

\* a getFile of a missing path has failed, and its sync changed the store
C10_Witness ==
    \E id \in GetIds :
        /\ gets[id].state = "rejected"
        /\ gets[id].error = "FileNotFound"
        /\ gets[id].changed
        /\ ~store[gets[id].path].found
        /\ \E path \in Paths : store[path].found

(***************************************************************************)
(* C11: once setup has launched the program (dosapp.current holds its      *)
(* command interface) and the component has been unmounted, exit() has     *)
(* been or eventually is called on it, whether the unmount came after      *)
(* setup succeeded, after it failed, or while it was suspended in an       *)
(* await.                                                                  *)
(***************************************************************************)
C11_TeardownExits == [](( unmounted /\ dosapp) => <>exited)

(***************************************************************************)
(* C12: a failure of any step of setup sets isError, an invalid token in   *)
(* postStart is such a failure, isError is never reset, and setup ends     *)
(* either ready (the program launched, the postStart strokes sent, no      *)
(* error) or failed (isError set).                                         *)
(***************************************************************************)
InvalidPostStart == \E k \in 1..Len(postStart) : ~ValidToken(postStart[k])

C12_SetupFailureIsError ==
    [][/\ isError => isError'
       /\ setupPc' = "failed" => isError'
       /\ setupPc' = "done" =>
             (~isError' /\ dosapp' /\ calls'[SetupCall].state = "resolved")
       /\ calls'[SetupCall].state = "rejected" => setupPc' = "failed"
       /\ (setupPc = "main" /\ setupPc' # "main" /\ InvalidPostStart) =>
             (setupPc' = "failed" /\ isError' /\ events' = events)]_vars

(***************************************************************************)
(* C13, as claimed: a watch is ended by nothing but a poll at which the    *)
(* region matches or its abort signal is set.                              *)
(***************************************************************************)
Ends(id) == watches[id].state = "sleeping" /\ watches'[id].state # "sleeping"

C13_OnlyMatchOrAbortEnds ==
    [][\A id \in WatchIds :
          Ends(id) =>
              /\ Polled(id)
              /\ \/ CanvasMounted /\ hasImage(watches[id].image)
                 \/ watches[id].signal /\ aborted]_vars

(***************************************************************************)
(* C13, amended: watchForImage has no limit of its own.  A poll at which   *)
(* the canvas is mounted, the region does not match and no abort signal    *)
(* was given or the signal is not set leaves the call suspended, however   *)
(* many polls it has made; no step other than its own poll ends a watch;   *)
(* a watch is resolved only by a poll at which the region matches or its   *)
(* signal is set.  Besides this a watch is ended, rejected, by its first   *)
(* poll after a failed setup has replaced the canvas by the error text.    *)
(***************************************************************************)
C13_NoTimeout ==
    [][\A id \in WatchIds :
          LET watch == watches[id]
              condition == hasImage(watch.image) \/ (watch.signal /\ aborted)
          IN  /\ Ends(id) => Polled(id)
              /\ (Polled(id) /\ CanvasMounted /\ ~condition) =>
                    watches'[id].state = "sleeping"
              /\ (Ends(id) /\ watches'[id].state = "resolved") =>
                    (CanvasMounted /\ condition)
              /\ (Ends(id) /\ watches'[id].state = "rejected") => ~CanvasMounted
              /\ (Polled(id) /\ ~CanvasMounted) =>
                    watches'[id].state = "rejected"]_vars

\* a watch without a signal has made every poll the model allows and is
\* still suspended, the region never having matched; another watch was
\* ended by the failure of setup
C13_Witness ==
    /\ \E id \in WatchIds :
          /\ watches[id].state = "sleeping"
          /\ watches[id].polls = MaxPolls
          /\ ~watches[id].signal
          /\ ~watches[id].sawMatch
    /\ \E id \in WatchIds : watches[id].state = "rejected"

(***************************************************************************)
(* C14: the key events the emulator has received are press/release pairs   *)
(* that do not overlap: every down(c) is the last event so far or is       *)
(* followed at once by up(c), and every up(c) follows its down(c); so at   *)
(* most one key is down.  Claimed for all calls of sendStrokes, setup's    *)
(* and the driver's, however they overlap in time.                         *)
(***************************************************************************)
C14_NonOverlappingPairs ==
    \A i \in 1..Len(events) :
        IF events[i].down
        THEN i < Len(events) => events[i + 1] = KeyEvent(events[i].code, FALSE)
        ELSE i > 1 /\ events[i - 1] = KeyEvent(events[i].code, TRUE)

(***************************************************************************)
(* C15, as claimed: a watchForImage call is suspended when it is made and  *)
(* ends only at a poll; a call made when the region matched, or with a     *)
(* signal that was set, returns at its first poll; a set signal ends a     *)
(* watch at its next poll.                                                 *)
(***************************************************************************)
Called(id) == watches[id].state = "unused" /\ watches'[id].state # "unused"

C15_ReturnsAtFirstPoll ==
    [][\A id \in WatchIds :
          /\ Called(id) => (watches'[id].state = "sleeping" /\ watches'[id].polls = 0)
          /\ Ends(id) => Polled(id)
          /\ (Polled(id) /\ watches[id].polls = 0
                 /\ (watches[id].matchedAtCall \/ watches[id].abortedAtCall)) =>
                (watches'[id].state = "resolved" /\ watches'[id].polls = 1)
          /\ (Polled(id) /\ watches[id].signal /\ aborted) =>
                watches'[id].state # "sleeping"]_vars

(***************************************************************************)
(* C15, amended: a watchForImage call is suspended when it is made, even   *)
(* if the region matches or its signal is set, and ends only at one of its *)
(* polls, so after at least one interval and one check; setting the signal *)
(* changes no watch, and a watch whose signal is set ends at its next      *)
(* poll.  A call made with a set signal ends at its first poll, and a call *)
(* made when the region matched returns at its first poll if the region    *)
(* matches at that poll; the end is a return if the canvas is then         *)
(* mounted and a rejection if a failed setup has removed it.               *)
(***************************************************************************)
C15_FirstCheckAfterInterval ==
    [][\A id \in WatchIds :
          LET watch == watches[id]
              first == Polled(id) /\ watch.polls = 0
          IN  /\ Called(id) =>
                    (watches'[id].state = "sleeping" /\ watches'[id].polls = 0)
              /\ Ends(id) => (Polled(id) /\ watches'[id].polls >= 1)
              /\ aborted' # aborted => watches' = watches
              /\ (Polled(id) /\ watch.signal /\ aborted) =>
                    watches'[id].state # "sleeping"
              /\ (first /\ watch.abortedAtCall) =>
                    /\ watches'[id].polls = 1
                    /\ watches'[id].state =
                          IF CanvasMounted THEN "resolved" ELSE "rejected"
              /\ (first /\ watch.matchedAtCall /\ hasImage(watch.image)) =>
                    /\ watches'[id].polls = 1
                    /\ watches'[id].state =
                          IF CanvasMounted THEN "resolved" ELSE "rejected"]_vars

\* one call made when the region matched and one made with the signal set
\* (the region no longer matching) have both returned at their first poll
C15_Witness ==
    /\ \E id \in WatchIds :
          /\ watches[id].matchedAtCall
          /\ ~watches[id].signal
          /\ watches[id].state = "resolved"
          /\ watches[id].polls = 1
    /\ \E id \in WatchIds :
          /\ watches[id].abortedAtCall
          /\ ~watches[id].matchedAtCall
          /\ watches[id].state = "resolved"
          /\ watches[id].polls = 1

(***************************************************************************)
(* C16: a writeFile(path, bytes) call on a started runtime leaves the live *)
(* filesystem with a file at path whose contents are bytes, whether or not *)
(* a file was there before; every other path of the live filesystem and    *)
(* every record of the store are as they were.  (Before the runtime is     *)
(* there the call throws and changes nothing.)                             *)
(***************************************************************************)
C16_WriteFrame ==
    [][\A path \in Paths, contents \in Contents :
          CallWriteFile(path, contents) =>
              IF runtimeRef
              THEN /\ live'[path].exists
                   /\ live'[path].contents = contents
                   /\ \A other \in Paths \ {path} : live'[other] = live[other]
                   /\ store' = store
                   /\ lastWrite' = "resolved"
              ELSE /\ live' = live
                   /\ store' = store
                   /\ lastWrite' = "rejected"]_vars

\* 1,2,3 was written over an existing file; the other path has its file and
\* the store still has the record of the latest sync, which is not 1,2,3
C16_Witness ==
    \E path \in Paths :
        /\ fresh[path] = Fresh(<<1, 2, 3>>, TRUE)
        /\ live[path] = File(<<1, 2, 3>>)
        /\ store[path] = Record(<<7>>)
        /\ \E other \in Paths \ {path} : live[other].exists

(***************************************************************************)
(* C17: the step that calls watchForImage and every poll of a watch change *)
(* nothing but the watch itself: not the abort signal, not the key events  *)
(* the emulator received, not the canvas, not the live filesystem, not the *)
(* store.  No step resets a set signal, so a watch called with a signal    *)
(* that is already set, after other watches have seen it, ends at its      *)
(* first poll too.                                                         *)
(***************************************************************************)
C17_WatchOnlyReads ==
    [][/\ aborted => aborted'
       /\ \A id \in WatchIds :
             /\ (Called(id) \/ Polled(id)) =>
                   /\ aborted' = aborted
                   /\ events' = events
                   /\ canvas' = canvas
                   /\ live' = live
                   /\ store' = store
                   /\ \A other \in WatchIds \ {id} : watches'[other] = watches[other]
             /\ Polled(id) =>
                   /\ watches'[id].signal = watches[id].signal
                   /\ watches'[id].image = watches[id].image
             /\ (Polled(id) /\ watches[id].polls = 0 /\ watches[id].abortedAtCall) =>
                   /\ aborted
                   /\ watches'[id].state # "sleeping"]_vars

\* the signal was set during one watch, which ended by it; a second watch
\* called with the same, set signal ended at its first poll; the region
\* never matched
C17_Witness ==
    /\ aborted
    /\ canvas = "blank"
    /\ \E first, later \in WatchIds :
          /\ watches[first].signal
          /\ ~watches[first].abortedAtCall
          /\ watches[first].state = "resolved"
          /\ ~watches[first].sawMatch
          /\ watches[later].abortedAtCall
          /\ watches[later].state = "resolved"
          /\ watches[later].polls = 1
          /\ ~watches[later].sawMatch

(***************************************************************************)
(* C18, as claimed: getFile(path) gives what the live filesystem held for  *)
(* path when the sync of this call completed: the contents of the file, or *)
(* the file-not-found error if there was none; whatever is written to the  *)
(* path after that sync is not in the result.                              *)
(***************************************************************************)
C18_ReturnsOwnSync ==
    [][\A id \in GetIds :
          LET call == gets[id]
              after == gets'[id]
          IN  (call.state = "get" /\ after.state # "get") =>
                  /\ after.state = (IF call.ownSync.exists
                                    THEN "resolved" ELSE "rejected")
                  /\ after.result = call.ownSync.contents]_vars

(***************************************************************************)
(* C18, amended: getFile(path) gives the record the store holds for path   *)
(* at its lookup, never the live file.  If the sync of no other getFile    *)
(* call has changed that record since the sync of this call, the result is *)
(* what the live filesystem held for path when the sync of this call       *)
(* completed, so a file the emulated program wrote before is returned and  *)
(* a write to the path during the open or the lookup is not; if another    *)
(* call's sync has changed the record, the result is what that later sync  *)
(* persisted.                                                              *)
(***************************************************************************)
C18_ReturnsStoreRecord ==
    [][\A id \in GetIds :
          LET call == gets[id]
              after == gets'[id]
          IN  /\ (call.state \in {"openDB", "get"} /\ ~call.overtaken) =>
                    /\ store[call.path].found = call.ownSync.exists
                    /\ store[call.path].contents = call.ownSync.contents
              /\ (call.state = "get" /\ after.state # "get") =>
                    /\ after.state = (IF store[call.path].found
                                      THEN "resolved" ELSE "rejected")
                    /\ after.result = store[call.path].contents
                    /\ ~call.overtaken =>
                          /\ after.state = (IF call.ownSync.exists
                                            THEN "resolved" ELSE "rejected")
                          /\ after.result = call.ownSync.contents]_vars

\* a getFile call returned the 7 the program had saved before its sync; the
\* 1,2,3 that writeFile put over it since is in the live filesystem only
C18_Witness ==
    \E id \in GetIds :
        /\ gets[id].state = "resolved"
        /\ gets[id].result = <<7>>
        /\ live[gets[id].path] = File(<<1, 2, 3>>)
        /\ fresh[gets[id].path] = Fresh(<<1, 2, 3>>, TRUE)
        /\ store[gets[id].path] = Record(<<7>>)

(***************************************************************************)
(* C19: writeFile removes and creates in one step, so no state has an      *)
(* overwritten path absent.  The only step after which a path that had a   *)
(* file has none is a delete by the emulated program; while a file is as   *)
(* writeFile left it, it is in the live filesystem with the bytes written; *)
(* and a sync of getFile that completes then persists it, and never drops  *)
(* or empties its record.                                                  *)
(***************************************************************************)
Syncs == store' # store \/ \E id \in GetIds : gets[id].state = "syncFs"
                                           /\ gets'[id].state = "openDB"

C19_NoAbsentWindow ==
    [][\A path \in Paths :
          /\ (live[path].exists /\ ~live'[path].exists) => ProgramDeletes(path)
          /\ \A contents \in Contents :
                (CallWriteFile(path, contents) /\ live[path].exists) =>
                    live'[path] = File(contents)
          /\ fresh'[path].found => live'[path] = File(fresh'[path].contents)
          /\ (Syncs /\ fresh[path].found) =>
                store'[path] = Record(fresh[path].contents)
          /\ (store[path].found /\ ~store'[path].found) =>
                (Syncs /\ ~live[path].exists /\ ~fresh[path].found)]_vars

\* a getFile call has synced after 1,2,3 was written over an existing file:
\* the store has the new record
C19_Witness ==
    \E id \in GetIds :
        /\ gets[id].state = "openDB"
        /\ gets[id].changed
        /\ gets[id].fresh = Fresh(<<1, 2, 3>>, TRUE)
        /\ fresh[gets[id].path] = Fresh(<<1, 2, 3>>, TRUE)
        /\ live[gets[id].path] = File(<<1, 2, 3>>)
        /\ store[gets[id].path] = Record(<<1, 2, 3>>)

=============================================================================
